---- MODULE Spec2Model ----
(***************************************************************************)
(* Model of MainCode.py: the interactive controller main() (load, menu     *)
(* loop, confirm/display, save, exit) and save_image's choice of encoding  *)
(* options.  Texts typed at a prompt are sequences of one-character        *)
(* strings.  An image is the decoded file it came from together with the   *)
(* library kernels applied to it, in order.                                *)
(***************************************************************************)
EXTENDS Integers, Sequences, FiniteSets, TLC

VARIABLES
    pc,         \* "Idle" | "Ready" | "Exit" (main returned) | "Aborted" (uncaught exception)
    img,        \* main's img: the image load_image returned
    current,    \* main's current: the working copy
    modified,   \* main's modified flag
    out,        \* console / display / disk events of the latest step of main
    hist,       \* history: the adjustments applied since load, as <<choice, parameter>>
    sinceSave,  \* history: number of adjustments applied since load or the last written file
    call        \* a direct call of save_image (SaveSpec only)

vars == <<pc, img, current, modified, out, hist, sinceSave, call>>

-----------------------------------------------------------------------------
(* Bounds *)

\* Largest number of adjustments applied in one session.
MaxOps == 2

\* Longest output path handed to save_image in SaveSpec.
MaxPathLen == 5

-----------------------------------------------------------------------------
(* Values *)

\* A float that a typed decimal denotes: n / d, d a power of ten, reduced.
Num(n, d) == [n |-> n, d |-> d]

NoNum == Num(0, 1)

NoImage == [base |-> "none", ops |-> <<>>]

\* One observable event.  Every event has all six fields so that any two
\* events can be compared.
Ev(ev, txt, chars, image, opt, num) ==
    [ev |-> ev, txt |-> txt, chars |-> chars, img |-> image, opt |-> opt, num |-> num]

Printed(txt)      == Ev("print", txt, <<>>, NoImage, <<>>, NoNum)
PrintedPath(txt, path) == Ev("print", txt, path, NoImage, <<>>, NoNum)
Prompt(txt)       == Ev("prompt", txt, <<>>, NoImage, <<>>, NoNum)
Typed(chars)      == Ev("input", "", chars, NoImage, <<>>, NoNum)
Raised(kind)      == Ev("raise", kind, <<>>, NoImage, <<>>, NoNum)
Shown(image)      == Ev("show", "", <<>>, image, <<>>, NoNum)
Assigned(image, num) == Ev("assign", "", <<>>, image, <<>>, num)
SaveCalled(outcome, path, image, opt, quality) ==
    Ev("image.save", outcome, path, image, opt, Num(quality, 1))

-----------------------------------------------------------------------------
(* float(text) *)

Digits == {"0", "1", "2", "3", "4", "5", "6", "7", "8", "9"}

DigitVal(c) ==
    CASE c = "0" -> 0 [] c = "1" -> 1 [] c = "2" -> 2 [] c = "3" -> 3
      [] c = "4" -> 4 [] c = "5" -> 5 [] c = "6" -> 6 [] c = "7" -> 7
      [] c = "8" -> 8 [] c = "9" -> 9

RECURSIVE LStrip(_)
LStrip(s) == IF s # <<>> /\ Head(s) = " " THEN LStrip(Tail(s)) ELSE s

RECURSIVE RStrip(_)
RStrip(s) ==
    IF s # <<>> /\ s[Len(s)] = " " THEN RStrip(SubSeq(s, 1, Len(s) - 1)) ELSE s

Strip(s) == RStrip(LStrip(s))

RECURSIVE DigitsToInt(_)
DigitsToInt(s) ==
    IF s = <<>> THEN 0
    ELSE 10 * DigitsToInt(SubSeq(s, 1, Len(s) - 1)) + DigitVal(s[Len(s)])

RECURSIVE Pow10(_)
Pow10(k) == IF k = 0 THEN 1 ELSE 10 * Pow10(k - 1)

RECURSIVE Reduce(_, _)
Reduce(n, d) ==
    IF d > 1 /\ n % 10 = 0 THEN Reduce(n \div 10, d \div 10) ELSE Num(n, d)

IsDigit(c) == c \in Digits

\* The digits-and-dot part of the text: digits with at most one '.', at
\* least one digit.
WellFormed(body) ==
    /\ body # <<>>
    /\ \A i \in 1..Len(body) : body[i] \in Digits \cup {"."}
    /\ Cardinality({i \in 1..Len(body) : body[i] = "."}) <= 1
    /\ \E i \in 1..Len(body) : body[i] \in Digits

\* Number of digits after the '.'.
FracDigits(body) ==
    IF \E i \in 1..Len(body) : body[i] = "."
    THEN Len(body) - (CHOOSE i \in 1..Len(body) : body[i] = ".")
    ELSE 0

ParseBody(sgn, body) ==
    IF WellFormed(body)
    THEN [ok |-> TRUE,
          val |-> Reduce(sgn * DigitsToInt(SelectSeq(body, IsDigit)), Pow10(FracDigits(body)))]
    ELSE [ok |-> FALSE, val |-> NoNum]

ParseSigned(t) ==
    IF t # <<>> /\ t[1] \in {"+", "-"}
    THEN ParseBody(IF t[1] = "-" THEN -1 ELSE 1, Tail(t))
    ELSE ParseBody(1, t)

\* float(): surrounding blanks are dropped, then an optional sign, then the
\* digits.  ValueError (ok = FALSE) otherwise.
ParseFloat(text) == ParseSigned(Strip(text))

-----------------------------------------------------------------------------
(* Image I/O *)

\* The files the path typed at start-up can name, and what Image.open
\* makes of each.
LoadPaths == {"photo.jpg", "missing.jpg", "notes.txt"}

Disk(path) ==
    CASE path = "photo.jpg"   -> [ok |-> TRUE,  image |-> "photo", err |-> ""]
      [] path = "missing.jpg" -> [ok |-> FALSE, image |-> "none",  err |-> "FileNotFoundError"]
      [] path = "notes.txt"   -> [ok |-> FALSE, image |-> "none",  err |-> "UnidentifiedImageError"]

\* load_image: the decoded file converted to RGB, or the exception raised.
Decoded(f) ==
    IF f.ok THEN [ok |-> TRUE, image |-> [base |-> f.image, ops |-> <<>>], err |-> ""]
    ELSE [ok |-> FALSE, image |-> NoImage, err |-> f.err]

load_image(path) == Decoded(Disk(path))

lower(c) ==
    CASE c = "J" -> "j" [] c = "P" -> "p" [] c = "E" -> "e" [] c = "G" -> "g"
      [] c = "N" -> "n" [] OTHER -> c

LowerAll(s) == [i \in 1..Len(s) |-> lower(s[i])]

\* path.split('.')[-1]: the text after the last '.', the whole path if it
\* holds none.
LastDotPiece(path) ==
    IF \E i \in 1..Len(path) : path[i] = "."
    THEN SubSeq(path,
                1 + (CHOOSE i \in 1..Len(path) :
                       /\ path[i] = "."
                       /\ \A j \in (i + 1)..Len(path) : path[j] # "."),
                Len(path))
    ELSE path

\* ext = path.split('.')[-1].lower()
SaveExt(path) == LowerAll(LastDotPiece(path))

JpegOptions(quality) == << <<"quality", quality>>, <<"optimize", 1>>, <<"subsampling", 0>> >>
PngOptions == << <<"compress_level", 1>> >>
NoOptions == << >>

\* The options dict save_image builds from ext.
OptionsFor(ext, quality) ==
    IF ext \in {<<"j", "p", "g">>, <<"j", "p", "e", "g">>} THEN JpegOptions(quality)
    ELSE IF ext = <<"p", "n", "g">> THEN PngOptions
    ELSE NoOptions

SaveOptions(path, quality) == OptionsFor(SaveExt(path), quality)

\* save_image(image, path, quality): image.save either writes the file
\* (written) or raises; "Saved:" is printed only after it returned.
save_image(image, path, quality, written) ==
    IF written
    THEN [ok |-> TRUE,
          out |-> << SaveCalled("written", path, image, SaveOptions(path, quality), quality),
                     PrintedPath("Saved:", path) >>]
    ELSE [ok |-> FALSE,
          out |-> << SaveCalled("raised", path, image, SaveOptions(path, quality), quality),
                     Raised("image.save") >>]

DefaultQuality == 100

-----------------------------------------------------------------------------
(* Adjustment operations: each hands the image to one library kernel and    *)
(* returns the new image the kernel produced.                               *)

Kernel(image, name, args) ==
    [base |-> image.base, ops |-> Append(image.ops, [op |-> name, args |-> args])]

apply_gamma(image, gamma)        == Kernel(image, "exposure.adjust_gamma", <<gamma>>)
apply_hist_eq(image)             == Kernel(image, "cv2.equalizeHist(Y)", <<>>)
adjust_brightness(image, factor) == Kernel(image, "ImageEnhance.Brightness", <<factor>>)
adjust_contrast(image, factor)   == Kernel(image, "ImageEnhance.Contrast", <<factor>>)
adjust_sharpness(image, factor)  == Kernel(image, "ImageEnhance.Sharpness", <<factor>>)
adjust_saturation(image, factor) == Kernel(image, "ImageEnhance.Color", <<factor>>)
adjust_exposure(image, gain)     == Kernel(image, "exposure.adjust_log", <<gain>>)

-----------------------------------------------------------------------------
(* main(): inputs *)

\* Lines typed at "Choose: ".
ChoiceTexts ==
    {<<d>> : d \in Digits} \cup {<<>>, <<" ", "8">>, <<"1", "0">>}

\* Lines typed at a parameter prompt.
ParamTexts ==
    {<<"1", ".", "0">>, <<" ", ".", "5">>, <<>>, <<"a">>}

\* Lines typed at "Save as: ".
SavePaths ==
    {<<"e", ".", "J", "p", "g">>, <<"p", "n", "g">>, <<"e">>}

-----------------------------------------------------------------------------
(* main(): start-up *)

Result(p, cur, mod, o) == [pc |-> p, current |-> cur, modified |-> mod, out |-> o]

TypedPath(path) == Ev("input", path, <<>>, NoImage, <<>>, NoNum)

\* Loaded with the handler re-raising instead of returning.
Loaded_Reraises(path, l) ==
    IF l.ok
    THEN [pc |-> "Ready", img |-> l.image, current |-> l.image, modified |-> FALSE,
          out |-> <<Prompt("Path: "), TypedPath(path)>>]
    ELSE [pc |-> "Aborted", img |-> NoImage, current |-> NoImage, modified |-> FALSE,
          out |-> <<Prompt("Path: "), TypedPath(path), Printed("Error loading image:"),
                    Raised("load_image")>>]

\* try: img = load_image(path) except Exception: print, return;
\* current = img.copy(); modified = False
Loaded(path, l) ==
    IF l.ok
    THEN [pc |-> "Ready", img |-> l.image, current |-> l.image, modified |-> FALSE,
          out |-> <<Prompt("Path: "), TypedPath(path)>>]
    ELSE [pc |-> "Exit", img |-> NoImage, current |-> NoImage, modified |-> FALSE,
          out |-> <<Prompt("Path: "), TypedPath(path), Printed("Error loading image:")>>]

\* path = input("Path: "), then the load.
Startup(path) == Loaded(path, load_image(path))

-----------------------------------------------------------------------------
(* main(): the branches of one menu iteration *)

\* Adjusted with the flag left alone when the parameter is exactly 1.
Adjusted_SkipsIdentity(prompt, text, f, image, cur, mod) ==
    IF ~f.ok
    THEN Result("Aborted", cur, mod, <<Prompt(prompt), Typed(text), Raised("ValueError")>>)
    ELSE Result("Ready", image, IF f.val = Num(1, 1) THEN mod ELSE TRUE,
                <<Prompt(prompt), Typed(text), Assigned(image, f.val)>>)

\* Adjusted with an empty line taken as "leave the image alone".
Adjusted_SkipsEmptyLine(prompt, text, f, image, cur, mod) ==
    IF ~f.ok /\ text = <<>>
    THEN Result("Ready", cur, mod, <<Prompt(prompt), Typed(text)>>)
    ELSE IF ~f.ok
    THEN Result("Aborted", cur, mod, <<Prompt(prompt), Typed(text), Raised("ValueError")>>)
    ELSE Result("Ready", image, TRUE,
                <<Prompt(prompt), Typed(text), Assigned(image, f.val)>>)

\* current = op(current, f); modified = True -- or float()'s ValueError.
Adjusted(prompt, text, f, image, cur, mod) ==
    IF ~f.ok
    THEN Result("Aborted", cur, mod, <<Prompt(prompt), Typed(text), Raised("ValueError")>>)
    ELSE Result("Ready", image, TRUE,
                <<Prompt(prompt), Typed(text), Assigned(image, f.val)>>)

\* if modified: print("Applied."); current.show()
Confirm(mod, cur) == IF mod THEN <<Printed("Applied."), Shown(cur)>> ELSE <<>>

\* Choice0 with the `break` placed after the closing `if modified`.
Choice0_ConfirmsFirst(cur, mod) == Result("Exit", cur, mod, Confirm(mod, cur))

Choice0(cur, mod) == Result("Exit", cur, mod, <<>>)

\* f = float(input("Gamma [1]: ")); current = apply_gamma(current, f); modified = True
Choice1(text, cur, mod) ==
    Adjusted("Gamma [1]: ", text, ParseFloat(text), apply_gamma(cur, ParseFloat(text).val), cur, mod)

Choice2(cur, mod) ==
    Result("Ready", apply_hist_eq(cur), TRUE, <<Assigned(apply_hist_eq(cur), NoNum)>>)

\* f = float(input("Brightness [1]: ")); current = adjust_brightness(current, f); modified = True
Choice3(text, cur, mod) ==
    Adjusted("Brightness [1]: ", text, ParseFloat(text), adjust_brightness(cur, ParseFloat(text).val), cur, mod)

\* f = float(input("Contrast [1]: ")); current = adjust_contrast(current, f); modified = True
Choice4(text, cur, mod) ==
    Adjusted("Contrast [1]: ", text, ParseFloat(text), adjust_contrast(cur, ParseFloat(text).val), cur, mod)

\* f = float(input("Sharpness [1]: ")); current = adjust_sharpness(current, f); modified = True
Choice5(text, cur, mod) ==
    Adjusted("Sharpness [1]: ", text, ParseFloat(text), adjust_sharpness(cur, ParseFloat(text).val), cur, mod)

\* f = float(input("Saturation [1]: ")); current = adjust_saturation(current, f); modified = True
Choice6(text, cur, mod) ==
    Adjusted("Saturation [1]: ", text, ParseFloat(text), adjust_saturation(cur, ParseFloat(text).val), cur, mod)

\* f = float(input("Exposure [1]: ")); current = adjust_exposure(current, f); modified = True
Choice7(text, cur, mod) ==
    Adjusted("Exposure [1]: ", text, ParseFloat(text), adjust_exposure(cur, ParseFloat(text).val), cur, mod)

\* Choice8 with the adjustments' `modified = True` copied into it.
Choice8_MarksModified(cur, mod) == Result("Ready", cur, TRUE, <<Shown(cur)>>)

Choice8(cur, mod) == Result("Ready", cur, mod, <<Shown(cur)>>)

\* Saved without `modified = False`.
Saved_KeepsModified(path, s, cur, mod) ==
    IF s.ok THEN Result("Ready", cur, mod, <<Prompt("Save as: "), Typed(path)>> \o s.out)
    ELSE Result("Aborted", cur, mod, <<Prompt("Save as: "), Typed(path)>> \o s.out)

\* Saved with the working copy started afresh from the loaded image.
Saved_ResetsBuffer(path, s, cur, mod) ==
    IF s.ok
    THEN Result("Ready", [cur EXCEPT !.ops = <<>>], FALSE,
                <<Prompt("Save as: "), Typed(path)>> \o s.out)
    ELSE Result("Aborted", cur, mod, <<Prompt("Save as: "), Typed(path)>> \o s.out)

\* save_image returned: modified = False.  It raised: the exception leaves main.
Saved(path, s, cur, mod) ==
    IF s.ok THEN Result("Ready", cur, FALSE, <<Prompt("Save as: "), Typed(path)>> \o s.out)
    ELSE Result("Aborted", cur, mod, <<Prompt("Save as: "), Typed(path)>> \o s.out)

\* Choice9 without the test of modified.
Choice9_IgnoresFlag(path, written, cur, mod) ==
    Saved(path, save_image(cur, path, DefaultQuality, written), cur, mod)

\* if modified: save_image(current, input("Save as: ")); modified = False
\* else: print("Nothing to save.")
Choice9(path, written, cur, mod) ==
    IF mod
    THEN Saved(path, save_image(cur, path, DefaultQuality, written), cur, mod)
    ELSE Result("Ready", cur, mod, <<Printed("Nothing to save.")>>)

ChoiceElse(cur, mod) == Result("Ready", cur, mod, <<Printed("Invalid.")>>)

\* The if/elif chain on choice.
Dispatch(choice, param, path, written, cur, mod) ==
    IF choice = <<"0">> THEN Choice0(cur, mod)
    ELSE IF choice = <<"1">> THEN Choice1(param, cur, mod)
    ELSE IF choice = <<"2">> THEN Choice2(cur, mod)
    ELSE IF choice = <<"3">> THEN Choice3(param, cur, mod)
    ELSE IF choice = <<"4">> THEN Choice4(param, cur, mod)
    ELSE IF choice = <<"5">> THEN Choice5(param, cur, mod)
    ELSE IF choice = <<"6">> THEN Choice6(param, cur, mod)
    ELSE IF choice = <<"7">> THEN Choice7(param, cur, mod)
    ELSE IF choice = <<"8">> THEN Choice8(cur, mod)
    ELSE IF choice = <<"9">> THEN Choice9(path, written, cur, mod)
    ELSE ChoiceElse(cur, mod)

\* The end of a pass: `break` and an exception skip the closing `if modified`.
EndOfPass(choice, r) ==
    Result(r.pc, r.current, r.modified,
           <<Printed("Menu"), Prompt("Choose: "), Typed(choice)>>
           \o r.out
           \o (IF r.pc = "Ready" THEN Confirm(r.modified, r.current) ELSE <<>>))

\* One pass through the body of `while True`: menu, choice, branch, and the
\* closing `if modified`.
Iteration(choice, param, path, written, cur, mod) ==
    EndOfPass(choice, Dispatch(choice, param, path, written, cur, mod))

-----------------------------------------------------------------------------
(* Reading a step's events *)

Has(o, ev) == \E i \in 1..Len(o) : o[i].ev = ev

Count(o, ev) == Cardinality({i \in 1..Len(o) : o[i].ev = ev})

HasPrinted(o, txt) == \E i \in 1..Len(o) : o[i].ev = "print" /\ o[i].txt = txt

\* A file was written: image.save was called and returned.
Wrote(o) == \E i \in 1..Len(o) : o[i].ev = "image.save" /\ o[i].txt = "written"

IsIteration(o) == Len(o) >= 3 /\ o[1] = Printed("Menu") /\ o[3].ev = "input"

\* The line typed at "Choose: " in an iteration.
ChoiceOf(o) == o[3].chars

\* The history variables follow the events: an assignment to current by an
\* adjustment is one more adjustment, a written file starts the count anew.
HistAfter(h, o) ==
    IF IsIteration(o) /\ Has(o, "assign")
    THEN Append(h, <<ChoiceOf(o),
                     (CHOOSE e \in {o[i] : i \in 1..Len(o)} : e.ev = "assign").num>>)
    ELSE h

SinceSaveAfter(n, o) ==
    IF Wrote(o) THEN 0 ELSE IF Has(o, "assign") THEN n + 1 ELSE n

-----------------------------------------------------------------------------
(* Specification of main() *)

NoCall == [path |-> <<>>, quality |-> 0, options |-> NoOptions, state |-> "none"]

Init ==
    /\ pc = "Idle"
    /\ img = NoImage
    /\ current = NoImage
    /\ modified = FALSE
    /\ out = <<>>
    /\ hist = <<>>
    /\ sinceSave = 0
    /\ call = NoCall

\* The step's result becomes the state of main.
Begin(r) ==
    /\ pc' = r.pc
    /\ img' = r.img
    /\ current' = r.current
    /\ modified' = r.modified
    /\ out' = r.out
    /\ UNCHANGED <<hist, sinceSave, call>>

Start ==
    /\ pc = "Idle"
    /\ call = NoCall
    /\ \E path \in LoadPaths : Begin(Startup(path))

Commit(r) ==
    /\ Len(r.current.ops) <= MaxOps
    /\ pc' = r.pc
    /\ current' = r.current
    /\ modified' = r.modified
    /\ out' = r.out
    /\ hist' = HistAfter(hist, r.out)
    /\ sinceSave' = SinceSaveAfter(sinceSave, r.out)
    /\ UNCHANGED <<img, call>>

\* A pass reads a parameter, a save path, or neither; what it does not read
\* is fixed.
NoInput == {<<>>}

Step(choice, params, paths, outcomes) ==
    /\ call = NoCall
    /\ \E param \in params, path \in paths, written \in outcomes :
         Commit(Iteration(choice, param, path, written, current, modified))

ChooseExit ==
    /\ pc = "Ready"
    /\ Step(<<"0">>, NoInput, NoInput, {TRUE})

ChooseGamma ==
    /\ pc = "Ready"
    /\ Step(<<"1">>, ParamTexts, NoInput, {TRUE})

ChooseHistEq ==
    /\ pc = "Ready"
    /\ Step(<<"2">>, NoInput, NoInput, {TRUE})

ChooseBrightness ==
    /\ pc = "Ready"
    /\ Step(<<"3">>, ParamTexts, NoInput, {TRUE})

ChooseContrast ==
    /\ pc = "Ready"
    /\ Step(<<"4">>, ParamTexts, NoInput, {TRUE})

ChooseSharpness ==
    /\ pc = "Ready"
    /\ Step(<<"5">>, ParamTexts, NoInput, {TRUE})

ChooseSaturation ==
    /\ pc = "Ready"
    /\ Step(<<"6">>, ParamTexts, NoInput, {TRUE})

ChooseExposure ==
    /\ pc = "Ready"
    /\ Step(<<"7">>, ParamTexts, NoInput, {TRUE})

ChooseShow ==
    /\ pc = "Ready"
    /\ Step(<<"8">>, NoInput, NoInput, {TRUE})

ChooseSave ==
    /\ pc = "Ready"
    /\ IF modified THEN Step(<<"9">>, NoInput, SavePaths, BOOLEAN)
       ELSE Step(<<"9">>, NoInput, NoInput, {TRUE})

ChooseOther ==
    /\ pc = "Ready"
    /\ \E t \in ChoiceTexts \ {<<d>> : d \in Digits} :
         Step(t, NoInput, NoInput, {TRUE})

Next ==
    \/ Start
    \/ ChooseExit
    \/ ChooseGamma
    \/ ChooseHistEq
    \/ ChooseBrightness
    \/ ChooseContrast
    \/ ChooseSharpness
    \/ ChooseSaturation
    \/ ChooseExposure
    \/ ChooseShow
    \/ ChooseSave
    \/ ChooseOther

Spec == Init /\ [][Next]_vars

-----------------------------------------------------------------------------
(* Specification of save_image called on its own, for every short path *)

PathChars == {"j", "p", "e", "g", "n", "J", ".", "/"}

Paths == UNION {[1..n -> PathChars] : n \in 0..MaxPathLen}

Qualities == {1, DefaultQuality}

SaveInit ==
    /\ pc = "Idle"
    /\ img = NoImage
    /\ current = NoImage
    /\ modified = FALSE
    /\ out = <<>>
    /\ hist = <<>>
    /\ sinceSave = 0
    /\ call \in {[path |-> p, quality |-> q, options |-> NoOptions, state |-> "called"] :
                    p \in Paths, q \in Qualities}

SaveReturn ==
    /\ call.state = "called"
    /\ call' = [call EXCEPT !.options = SaveOptions(call.path, call.quality),
                            !.state = "returned"]
    /\ UNCHANGED <<pc, img, current, modified, out, hist, sinceSave>>

SaveNext == SaveReturn

SaveSpec == SaveInit /\ [][SaveNext]_vars

-----------------------------------------------------------------------------
(* Vocabulary of the properties *)

AdjustChoices == {<<"1">>, <<"2">>, <<"3">>, <<"4">>, <<"5">>, <<"6">>, <<"7">>}

ParamChoices == AdjustChoices \ {<<"2">>}

MenuChoices == {<<d>> : d \in Digits}

\* The events every pass starts with, for the line typed at "Choose: ".
PassHead(choice) == <<Printed("Menu"), Prompt("Choose: "), Typed(choice)>>

\* The step from the unprimed to the primed state is a pass of the menu loop
\* in which `choice` was typed.
PassWith(choice) == pc = "Ready" /\ IsIteration(out') /\ ChoiceOf(out') = choice

\* "Applied." was printed and the image displayed right after it.
Confirmed(o) ==
    \E i \in 1..(Len(o) - 1) : o[i] = Printed("Applied.") /\ o[i + 1].ev = "show"

\* No step leaves a state in which main has ended.
Ended == pc \in {"Exit", "Aborted"}

\* The adjustment the menu offers under each of the choices 1 to 7.
Offered(image, a) ==
    CASE a[1] = <<"1">> -> apply_gamma(image, a[2])
      [] a[1] = <<"2">> -> apply_hist_eq(image)
      [] a[1] = <<"3">> -> adjust_brightness(image, a[2])
      [] a[1] = <<"4">> -> adjust_contrast(image, a[2])
      [] a[1] = <<"5">> -> adjust_sharpness(image, a[2])
      [] a[1] = <<"6">> -> adjust_saturation(image, a[2])
      [] a[1] = <<"7">> -> adjust_exposure(image, a[2])

RECURSIVE Composed(_, _)
Composed(image, h) ==
    IF h = <<>> THEN image ELSE Composed(Offered(image, Head(h)), Tail(h))

-----------------------------------------------------------------------------
(* Properties *)

\* C1: in every pass of the menu loop, "Applied." is printed and the image
\* displayed automatically if and only if an adjustment (choice 1-7) assigned
\* current and set modified in that same pass; a pass whose choice is 8 or an
\* unrecognised line never prints "Applied.", and choice 8 displays the image
\* exactly once.
C1_AppliedIffAdjustedThisPass ==
    IsIteration(out) =>
        /\ HasPrinted(out, "Applied.") <=> Has(out, "assign")
        /\ Confirmed(out) <=> Has(out, "assign")
        /\ ChoiceOf(out) = <<"8">> => Count(out, "show") = 1
        /\ ChoiceOf(out) \notin AdjustChoices => ~HasPrinted(out, "Applied.")

\* C2: a pass with choice 9 that starts with modified false prints "Nothing
\* to save.", prompts for nothing, calls image.save not at all, and leaves
\* current and modified as they were; a file is written only in a pass that
\* started with modified true.
C2_NothingToSave ==
    [][ /\ PassWith(<<"9">>) /\ ~modified =>
              /\ out' = PassHead(<<"9">>) \o <<Printed("Nothing to save.")>>
              /\ current' = current
              /\ modified' = modified
              /\ pc' = "Ready"
        /\ Wrote(out') => modified
      ]_vars

C2_Witness ==
    /\ pc = "Ready"
    /\ out = PassHead(<<"9">>) \o <<Printed("Nothing to save.")>>
    /\ Len(hist) > 0
    /\ sinceSave = 0

\* C3: once an image is loaded, modified is true exactly when at least one
\* adjustment has been applied since the load or since the last written file;
\* a pass that applied an adjustment ends with modified true, whatever the
\* parameter; modified is false right after the load.
C3_ModifiedIffAdjustedSinceSave ==
    img # NoImage =>
        /\ modified <=> sinceSave > 0
        /\ IsIteration(out) /\ Has(out, "assign") => modified
        /\ ~IsIteration(out) => ~modified

C3_Witness ==
    /\ pc = "Ready"
    /\ modified
    /\ ChoiceOf(out) = <<"3">>
    /\ out[6] = Assigned(current, Num(1, 1))
    /\ Len(hist) = 2
    /\ sinceSave = 1

\* C4 as claimed: a pass with choice 9 that starts with modified true prompts
\* once for a path, calls save_image with current and quality 100, then has
\* modified false, current unchanged, no "Applied." and no display.
C4_SaveClearsModified ==
    [][ PassWith(<<"9">>) /\ modified =>
            /\ Count(out', "prompt") = 2
            /\ out'[4] = Prompt("Save as: ")
            /\ Count(out', "image.save") = 1
            /\ out'[6].ev = "image.save"
            /\ out'[6].img = current
            /\ out'[6].chars = out'[5].chars
            /\ out'[6].num = Num(100, 1)
            /\ modified' = FALSE
            /\ current' = current
            /\ ~HasPrinted(out', "Applied.")
            /\ ~Has(out', "show")
      ]_vars

\* C4 amended: a pass with choice 9 that starts with modified true prompts
\* once for a path and calls save_image with current, that path and quality
\* 100.  If image.save wrote the file, modified is then false and the program
\* goes on; if it raised, the program ends on the exception with modified
\* still true.  Either way current is unchanged, and the pass prints no
\* "Applied." and displays nothing.
C4_SaveClearsModifiedIfWritten ==
    [][ PassWith(<<"9">>) /\ modified =>
            /\ Count(out', "prompt") = 2
            /\ out'[4] = Prompt("Save as: ")
            /\ Count(out', "image.save") = 1
            /\ out'[6].ev = "image.save"
            /\ out'[6].img = current
            /\ out'[6].chars = out'[5].chars
            /\ out'[6].num = Num(100, 1)
            /\ Wrote(out') => modified' = FALSE /\ pc' = "Ready"
            /\ ~Wrote(out') => modified' = TRUE /\ pc' = "Aborted"
            /\ current' = current
            /\ ~HasPrinted(out', "Applied.")
            /\ ~Has(out', "show")
      ]_vars

C4_Witness ==
    /\ pc = "Ready"
    /\ IsIteration(out)
    /\ ChoiceOf(out) = <<"9">>
    /\ Wrote(out)
    /\ out[6].img = current
    /\ Len(current.ops) = 2
    /\ ~modified

\* C5: a pass whose choice is 8, or any line other than "0" to "9", leaves
\* current and modified as they were and calls image.save not at all.
C5_ShowAndInvalidChangeNothing ==
    [][ \A c \in (ChoiceTexts \ MenuChoices) \cup {<<"8">>} :
            PassWith(c) =>
                /\ current' = current
                /\ modified' = modified
                /\ pc' = "Ready"
                /\ ~Has(out', "image.save")
      ]_vars

C5_Witness ==
    /\ modified
    /\ IsIteration(out)
    /\ ChoiceOf(out) = <<" ", "8">>
    /\ HasPrinted(out, "Invalid.")
    /\ Len(current.ops) = 1

\* C6: when load_image raises for the path typed at start-up, main prints
\* the error and returns: the path is asked for once, no menu is printed,
\* nothing is adjusted, displayed or saved, and nothing follows.
C6_LoadFailureEndsMain ==
    [][ /\ (pc = "Idle" /\ \E path \in LoadPaths :
                              out'[2] = TypedPath(path) /\ ~load_image(path).ok)
            => /\ pc' = "Exit"
               /\ Count(out', "prompt") = 1
               /\ out'[Len(out')] = Printed("Error loading image:")
               /\ ~HasPrinted(out', "Menu")
               /\ ~Has(out', "show") /\ ~Has(out', "image.save") /\ ~Has(out', "assign")
               /\ ~Has(out', "raise")
               /\ current' = NoImage
        /\ pc = "Exit" => FALSE
      ]_vars

C6_Witness ==
    /\ pc = "Exit"
    /\ out = <<Prompt("Path: "), TypedPath("missing.jpg"), Printed("Error loading image:")>>

\* C7: in a pass with choice 1, 3, 4, 5, 6 or 7, when the line typed at the
\* parameter prompt is no number (the empty line included), the program ends
\* on the exception: current and modified are as before, nothing is applied,
\* displayed or saved, and no pass follows.  A pass with choice 2 never ends
\* the program.
C7_BadParameterAborts ==
    [][ /\ \A c \in ParamChoices :
              PassWith(c) /\ ~ParseFloat(out'[5].chars).ok =>
                  /\ pc' = "Aborted"
                  /\ out'[Len(out')] = Raised("ValueError")
                  /\ current' = current
                  /\ modified' = modified
                  /\ ~Has(out', "assign") /\ ~Has(out', "show")
                  /\ ~Has(out', "image.save") /\ ~HasPrinted(out', "Applied.")
        /\ PassWith(<<"2">>) => pc' = "Ready" /\ ~Has(out', "raise")
        /\ pc = "Aborted" => FALSE
      ]_vars

C7_Witness ==
    /\ pc = "Aborted"
    /\ ChoiceOf(out) = <<"1">>
    /\ out[5] = Typed(<<>>)
    /\ out[6] = Raised("ValueError")
    /\ modified

\* C8: a pass with choice 0 ends main at once, for either value of modified:
\* nothing is prompted for, written, confirmed or displayed, and no step
\* follows Exit.
C8_ExitIsImmediateAndFinal ==
    [][ /\ PassWith(<<"0">>) =>
              /\ pc' = "Exit"
              /\ out' = PassHead(<<"0">>)
              /\ current' = current
              /\ modified' = modified
        /\ pc = "Exit" => FALSE
      ]_vars

C8_Witness ==
    /\ pc = "Exit"
    /\ out = PassHead(<<"0">>)
    /\ modified
    /\ sinceSave = 2

\* The extension of a path as C9 reads it: the text after the last '.' of the
\* file name (the part after the last '/'), lower-cased; none when the file
\* name holds no '.'.
FileName(path) ==
    IF \E i \in 1..Len(path) : path[i] = "/"
    THEN SubSeq(path,
                1 + (CHOOSE i \in 1..Len(path) :
                       /\ path[i] = "/"
                       /\ \A j \in (i + 1)..Len(path) : path[j] # "/"),
                Len(path))
    ELSE path

HasExtension(path) == \E i \in 1..Len(FileName(path)) : FileName(path)[i] = "."

Extension(path) == LowerAll(LastDotPiece(FileName(path)))

\* C9: save_image passes the JPEG options exactly when the path's extension
\* is jpg or jpeg, the PNG option exactly when it is png, and no options for
\* any other or missing extension.
C9_OptionsFollowExtension ==
    call.state = "returned" =>
        call.options =
            IF HasExtension(call.path)
               /\ Extension(call.path) \in {<<"j", "p", "g">>, <<"j", "p", "e", "g">>}
            THEN JpegOptions(call.quality)
            ELSE IF HasExtension(call.path) /\ Extension(call.path) = <<"p", "n", "g">>
            THEN PngOptions
            ELSE NoOptions

\* C10: once an image is loaded, current is the loaded image with every
\* adjustment applied since the load, in the order chosen; show, save and
\* invalid choices do not reset it, and what a pass displays or saves is that
\* composition.
C10_CurrentIsCompositionSinceLoad ==
    img # NoImage =>
        /\ current = Composed(img, hist)
        /\ \A i \in 1..Len(out) :
               out[i].ev \in {"show", "image.save"} => out[i].img = Composed(img, hist)

C10_Witness ==
    /\ pc = "Ready"
    /\ Len(hist) = 2
    /\ hist[1][1] = <<"7">>
    /\ hist[2][1] = <<"2">>
    /\ sinceSave = 1
    /\ out = PassHead(<<"8">>) \o <<Shown(current), Printed("Applied."), Shown(current)>>
    /\ Len(current.ops) = 2

====
